---------------------------- MODULE Spec2Model ----------------------------
(***************************************************************************)
(* brave_sync::storage::ObjectMap: the local-id <-> object-id mapping      *)
(* store kept in a leveldb database (object_map.cc / object_map.h).        *)
(*                                                                         *)
(* A std::string is a sequence of tokens.  A token is one character        *)
(* ("b", "1", the double quote, ...) or a run of characters that the       *)
(* program only ever handles as a whole ("object_id", "BOOKMARKS").        *)
(* White space between JSON tokens is left out of the text: the JSON       *)
(* reader skips it.                                                        *)
(***************************************************************************)
EXTENDS Integers, Sequences, FiniteSets, TLC

VARIABLES
  db,           \* the leveldb directory <profile_path>/brave_sync_db: key -> value
  level_db,     \* level_db_ holds an open handle
  api_version,  \* api_version_
  last,         \* the call that ran last, its arguments and its result
  crashed,      \* the process died (a CHECK failed or a null pointer was used)
  dchecks,      \* some DCHECK condition has been false so far (a checked build
                \* would have aborted there; a release build goes on)
  steps,        \* number of handlers run so far
  scope,        \* which operations and arguments the behaviour draws from
  posted,       \* the calls made in the calling context, in order
  queue,        \* task_runner_: the calls whose task has not started
  running,      \* the call whose task is past its open check, or 0
  released,     \* a leveldb::DB released by Close() waits to be deleted
  replies,      \* results whose reply is posted to the calling context
  delivered,    \* results whose callback has run, in order
  shutdown      \* the browser has shut down

\* the task runner, the calling context's history and the process
tasks == <<posted, queue, running, released, replies, delivered, shutdown>>

vars == <<db, level_db, api_version, last, crashed, dchecks, steps, scope,
          posted, queue, running, released, replies, delivered, shutdown>>

-----------------------------------------------------------------------------
(* Bounds of the model *)

\* handlers run in a behaviour that draws from every operation
MaxOps == 2
\* handlers run in a behaviour of the mapping operations
MaxMappingOps == 3
\* handlers run in a behaviour of saves and not-synced operations
MaxPurgeOps == 3
\* handlers run in a behaviour of not-synced operations alone
MaxNotSyncedOps == 3
\* handlers run in a behaviour of saves and order updates
MaxOrderOps == 2
\* handlers run in a behaviour of writes, Close and DestroyDB
MaxDestroyOps == 2
\* the engine refuses at most this many consecutive attempts to open it
MaxOpenFails == 1
\* longest local-id given to the key codec
MaxIdLen == 3
\* handlers run in a behaviour of SetApiVersion, saves and lookups
MaxVersionOps == 2
\* handlers run in a behaviour of saves and lookups of lists of orders
MaxBatchOps == 2
\* longest list of local-ids given to GetOrderByLocalObjectIds
MaxBatchLen == 3
\* handlers run in a behaviour of saves with failing Puts
MaxDualWriteOps == 2
\* calls made in a behaviour where calls and tasks interleave
MaxPosts == 3
\* the same, where Close() is looked at
MaxClosePosts == 4
\* the same, the worker and the replies being scheduled fairly
MaxFairPosts == 3
\* steps of a behaviour of saves and deletes
MaxDeleteOps == 2
\* steps of a behaviour that reads records written as raw JSON
MaxDecodeOps == 3
\* steps of a behaviour of saves and ResetSync calls
MaxResetOps == 3
\* calls made in a behaviour where DestroyDB is among the interleaved calls
MaxDestroyPosts == 3

-----------------------------------------------------------------------------
(* ObjectMap::Type and ObjectMap::NotSyncedRecordsOperation *)

Unset == 0
Bookmark == 1
History == 2
Types == {Unset, Bookmark, History}

GetItems == 0
AddItems == 1
DeleteItems == 2

-----------------------------------------------------------------------------
(* Strings *)

EmptyStr == <<>>
QUOTE == "\""
LBRACKET == "["
RBRACKET == "]"
LBRACE == "{"
RBRACE == "}"
COLON == ":"
COMMA == ","
Digits == {"0", "1", "2"}

\* position of a token in the character order of std::string::compare
\* (by the token's first character: digits, then capitals, then small letters)
CharRank(c) ==
  CASE c = "0" -> 0
    [] c = "1" -> 1
    [] c = "2" -> 2
    [] c = "BOOKMARKS" -> 3
    [] c = "HISTORY_SITES" -> 4
    [] c = "b" -> 5
    [] c = "h" -> 6
    [] c = "o" -> 7
    [] c = "p" -> 8
    [] OTHER -> 9

RECURSIVE StrLessFrom(_, _, _)
StrLessFrom(a, b, i) ==
  IF i > Len(b) THEN FALSE
  ELSE IF i > Len(a) THEN TRUE
  ELSE IF CharRank(a[i]) < CharRank(b[i]) THEN TRUE
  ELSE IF CharRank(a[i]) > CharRank(b[i]) THEN FALSE
  ELSE StrLessFrom(a, b, i + 1)

\* a < b for std::string (the order a std::set<std::string> iterates in)
StrLess(a, b) == StrLessFrom(a, b, 1)

RECURSIVE SortedSeq(_)
\* the elements of a std::set<std::string> in iteration order
SortedSeq(S) ==
  IF S = {} THEN <<>>
  ELSE LET from(m) == <<m>> \o SortedSeq(S \ {m})
       IN from(CHOOSE x \in S : \A y \in S \ {x} : StrLess(x, y))

-----------------------------------------------------------------------------
(* Key codec *)

SplitRawLocalId(raw_local_id) ==
  IF raw_local_id = EmptyStr
    THEN [local_id |-> EmptyStr, read_type |-> Unset]
  ELSE IF Head(raw_local_id) = "b"
    THEN [local_id |-> Tail(raw_local_id), read_type |-> Bookmark]
  ELSE IF Head(raw_local_id) = "h"
    THEN [local_id |-> Tail(raw_local_id), read_type |-> History]
  ELSE [local_id |-> raw_local_id, read_type |-> Unset]

ComposeRawLocalId(type, local_id) ==
  CASE type = Unset -> local_id
    [] type = Bookmark -> <<"b">> \o local_id
    [] type = History -> <<"h">> \o local_id

-----------------------------------------------------------------------------
(* base::Value, base::JSONReader and base::JSONWriter *)

JStr(s) == [k |-> "str", s |-> s, items |-> <<>>]
JNum(s) == [k |-> "num", s |-> s, items |-> <<>>]
JList(items) == [k |-> "list", s |-> <<>>, items |-> items]
\* items of a dictionary: <<[key |-> string, val |-> value], ...>> in text order
JDict(members) == [k |-> "dict", s |-> <<>>, items |-> members]

ParseFail == [ok |-> FALSE, v |-> JStr(EmptyStr), next |-> 0]
ParseOk(v, next) == [ok |-> TRUE, v |-> v, next |-> next]

\* index of the first token from i on that satisfies no run of `inside`, or Len+1
RECURSIVE RunEnd(_, _, _)
RunEnd(t, i, inside) ==
  IF i > Len(t) \/ t[i] \notin inside THEN i ELSE RunEnd(t, i + 1, inside)

\* index of the quote that closes a string whose content starts at i, or 0
RECURSIVE StrEnd(_, _)
StrEnd(t, i) ==
  IF i > Len(t) THEN 0
  ELSE IF t[i] = QUOTE THEN i
  ELSE StrEnd(t, i + 1)

RECURSIVE ParseValueAt(_, _)
RECURSIVE ParseItemsAt(_, _, _)
RECURSIVE ParseMembersAt(_, _, _)

\* one JSON value starting at token i
ParseValueAt(t, i) ==
  IF i > Len(t) THEN ParseFail
  ELSE IF t[i] = QUOTE THEN
    LET closed(e) ==
          IF e = 0 THEN ParseFail
          ELSE ParseOk(JStr(SubSeq(t, i + 1, e - 1)), e + 1)
    IN closed(StrEnd(t, i + 1))
  ELSE IF t[i] = LBRACKET THEN
    IF i + 1 <= Len(t) /\ t[i + 1] = RBRACKET
      THEN ParseOk(JList(<<>>), i + 2)
      ELSE ParseItemsAt(t, i + 1, <<>>)
  ELSE IF t[i] = LBRACE THEN
    IF i + 1 <= Len(t) /\ t[i + 1] = RBRACE
      THEN ParseOk(JDict(<<>>), i + 2)
      ELSE ParseMembersAt(t, i + 1, <<>>)
  ELSE IF t[i] \in Digits THEN
    LET ended(e) ==
          IF t[i] = "0" /\ e > i + 1 THEN ParseFail
          ELSE ParseOk(JNum(SubSeq(t, i, e - 1)), e)
    IN ended(RunEnd(t, i, Digits))
  ELSE ParseFail

\* the elements of a list after "[", up to and including "]"
ParseItemsAt(t, i, acc) ==
  LET after(r) ==
        IF ~r.ok \/ r.next > Len(t) THEN ParseFail
        ELSE IF t[r.next] = COMMA
          THEN ParseItemsAt(t, r.next + 1, Append(acc, r.v))
        ELSE IF t[r.next] = RBRACKET
          THEN ParseOk(JList(Append(acc, r.v)), r.next + 1)
        ELSE ParseFail
  IN after(ParseValueAt(t, i))

\* the members of a dictionary after "{", up to and including "}"
ParseMembersAt(t, i, acc) ==
  IF i > Len(t) \/ t[i] # QUOTE THEN ParseFail
  ELSE
    LET keyed(e) ==
          IF e = 0 \/ e + 1 > Len(t) \/ t[e + 1] # COLON THEN ParseFail
          ELSE
            LET after(r) ==
                  IF ~r.ok \/ r.next > Len(t) THEN ParseFail
                  ELSE IF t[r.next] = COMMA
                    THEN ParseMembersAt(t, r.next + 1,
                           Append(acc, [key |-> SubSeq(t, i + 1, e - 1), val |-> r.v]))
                  ELSE IF t[r.next] = RBRACE
                    THEN ParseOk(JDict(Append(acc, [key |-> SubSeq(t, i + 1, e - 1),
                                                    val |-> r.v])), r.next + 1)
                  ELSE ParseFail
            IN after(ParseValueAt(t, e + 2))
    IN keyed(StrEnd(t, i + 1))

\* base::JSONReader::ReadAndReturnError: ok is "the returned pointer is not null"
JSONRead(json) ==
  LET whole(r) == IF r.ok /\ r.next = Len(json) + 1 THEN r ELSE ParseFail
  IN whole(ParseValueAt(json, 1))

\* base::Value::FindKey on a dictionary: its value, found = FALSE for nullptr.
\* A key given twice keeps its last value.
FindKey(dict, key) ==
  LET hits == {i \in 1..Len(dict.items) : dict.items[i].key = key}
  IN IF hits = {} THEN [found |-> FALSE, val |-> JStr(EmptyStr)]
     ELSE [found |-> TRUE,
           val |-> dict.items[CHOOSE i \in hits : \A j \in hits : j <= i].val]

RECURSIVE JoinQuoted(_)
\* "a","b",...
JoinQuoted(items) ==
  IF items = <<>> THEN <<>>
  ELSE <<QUOTE>> \o Head(items) \o <<QUOTE>>
       \o (IF Len(items) > 1 THEN <<COMMA>> ELSE <<>>) \o JoinQuoted(Tail(items))


\* base::JSONWriter::WriteWithOptions of a list of strings (none of the
\* tokens used in identifiers needs escaping)
SerializeList(existing_list) ==
  <<LBRACKET>> \o JoinQuoted(SortedSeq(existing_list)) \o <<RBRACKET>>

\* ObjectMap::DeserializeList: crash is a failed CHECK in base::Value
\* (GetList on a value that is no list, GetString on one that is no string)
DeserializeList(raw) ==
  LET from(list) ==
        IF ~list.ok THEN [crash |-> FALSE, dcheck |-> FALSE, ret |-> {}]
        ELSE IF list.v.k # "list"
          THEN [crash |-> TRUE, dcheck |-> TRUE, ret |-> {}]
        ELSE IF \E i \in 1..Len(list.v.items) : list.v.items[i].k # "str"
          THEN [crash |-> TRUE, dcheck |-> FALSE, ret |-> {}]
        ELSE [crash |-> FALSE, dcheck |-> FALSE,
              ret |-> {list.v.items[i].s : i \in 1..Len(list.v.items)}]
  IN from(JSONRead(raw))

\* the text SaveObjectIdAndOrderInternal builds:
\* [{"object_id": "<object_id>", "order": "<order>", "apiVersion": "<api>"}]
RecordJson(object_id, order, api) ==
  <<LBRACKET, LBRACE, QUOTE, "object_id", QUOTE, COLON, QUOTE>> \o object_id
  \o <<QUOTE, COMMA, QUOTE, "order", QUOTE, COLON, QUOTE>> \o order
  \o <<QUOTE, COMMA, QUOTE, "apiVersion", QUOTE, COLON, QUOTE>> \o api
  \o <<QUOTE, RBRACE, RBRACKET>>

\* the text SaveObjectIdOnThread builds; the quote that should open the
\* apiVersion key is not in the source's string literal:
\* [{"object_id": "<object_id>", apiVersion": "<api>"}]
RecordJsonNoOrder(object_id, api) ==
  <<LBRACKET, LBRACE, QUOTE, "object_id", QUOTE, COLON, QUOTE>> \o object_id
  \o <<QUOTE, COMMA, "apiVersion", QUOTE, COLON, QUOTE>> \o api
  \o <<QUOTE, RBRACE, RBRACKET>>

-----------------------------------------------------------------------------
(* leveldb::DB over the directory's content *)

DbHas(d, key) == key \in DOMAIN d
DbGet(d, key) == IF key \in DOMAIN d THEN d[key] ELSE EmptyStr
DbPut(d, key, value) ==
  [k \in DOMAIN d \cup {key} |-> IF k = key THEN value ELSE d[k]]
DbDelete(d, key) == [k \in DOMAIN d \ {key} |-> d[k]]
EmptyDb == [k \in {} |-> EmptyStr]

-----------------------------------------------------------------------------
(* The handlers.  Each takes and returns the object's state                *)
(*   st = [db, open, fails, failed, dcheck, crash, api, put]               *)
(* db: the directory; open: level_db_ is set; fails: how many more         *)
(* attempts to open the engine refuses; failed: an open was refused in     *)
(* this handler; dcheck: a DCHECK condition was false (checked builds      *)
(* abort there, release builds go on); crash: the process died; api:       *)
(* api_version_; put: the engine fails the put-th Put from here (0: none). *)
(* After a crash nothing more of the handler runs.                         *)

Crash(st) == [st EXCEPT !.crash = TRUE]
DCheck(st, cond) == IF cond THEN st ELSE [st EXCEPT !.dcheck = TRUE]

CreateOpenDatabase(st) ==
  IF st.open THEN [st |-> st, ret |-> TRUE]
  ELSE IF st.fails > 0
    THEN [st |-> [st EXCEPT !.fails = @ - 1, !.failed = TRUE], ret |-> FALSE]
  ELSE [st |-> [st EXCEPT !.open = TRUE], ret |-> TRUE]

\* level_db_->NewIterator(...) with level_db_ null: a null pointer is used
TraceAll(st) == IF st.open THEN st ELSE Crash(st)

GetRawJsonByLocalId(st, local_id) ==
  LET with(o) ==
        IF ~o.ret THEN [st |-> o.st, ret |-> EmptyStr]
        ELSE [st |-> o.st, ret |-> DbGet(o.st.db, local_id)]
  IN with(CreateOpenDatabase(st))

\* val_entry.FindKey(key)->GetString(): ok = FALSE where it faults (the
\* entry is no dictionary, the key is missing, the value is no string)
FieldString(val_entry, key) ==
  IF val_entry.k # "dict" THEN [ok |-> FALSE, s |-> EmptyStr]
  ELSE LET got(f) ==
             IF f.found /\ f.val.k = "str" THEN [ok |-> TRUE, s |-> f.val.s]
             ELSE [ok |-> FALSE, s |-> EmptyStr]
       IN got(FindKey(val_entry, key))

ParsedNone(st, ret) ==
  [st |-> st, ret |-> ret, object_id |-> EmptyStr, order |-> EmptyStr,
   api_version |-> EmptyStr]

\* want_*: the caller passed a non-null pointer for the field
GetParsedDataByLocalId(st, type, local_id, want_object_id, want_order, want_api) ==
  LET fetched(g) ==
        IF g.ret = EmptyStr THEN ParsedNone(TraceAll(g.st), FALSE)
        ELSE
          LET read(val) ==
                IF ~val.ok THEN ParsedNone(g.st, FALSE)
                ELSE IF val.v.k # "list" \/ Len(val.v.items) # 1
                  THEN ParsedNone(DCheck(g.st, FALSE), FALSE)
                ELSE
                  LET fields(o, r, a) ==
                        IF (want_object_id /\ ~o.ok) \/ (want_order /\ ~r.ok)
                           \/ (want_api /\ ~a.ok)
                          THEN ParsedNone(Crash(g.st), FALSE)
                          ELSE [st |-> g.st, ret |-> TRUE,
                                object_id |-> IF want_object_id THEN o.s ELSE EmptyStr,
                                order |-> IF want_order THEN r.s ELSE EmptyStr,
                                api_version |-> IF want_api THEN a.s ELSE EmptyStr]
                  IN fields(FieldString(val.v.items[1], <<"object_id">>),
                            FieldString(val.v.items[1], <<"order">>),
                            FieldString(val.v.items[1], <<"apiVersion">>))
          IN read(JSONRead(g.ret))
  IN fetched(GetRawJsonByLocalId(st, ComposeRawLocalId(type, local_id)))

GetLocalIdByObjectIdOnThread(st, type, object_id) ==
  LET with(o) ==
        IF ~o.ret THEN [st |-> o.st, ret |-> EmptyStr]
        ELSE IF ~DbHas(o.st.db, object_id) THEN [st |-> o.st, ret |-> EmptyStr]
        ELSE LET split(sp) ==
                   [st |-> DCheck(o.st, type = sp.read_type), ret |-> sp.local_id]
             IN split(SplitRawLocalId(DbGet(o.st.db, object_id)))
  IN with(CreateOpenDatabase(st))

GetObjectIdByLocalIdOnThread(st, type, local_id) ==
  LET got(p) == [st |-> p.st, ret |-> p.object_id]
  IN got(GetParsedDataByLocalId(st, type, local_id, TRUE, FALSE, FALSE))

GetOrderByLocalObjectIdOnThread(st, type, local_id) ==
  LET got(p) == [st |-> p.st, ret |-> p.order]
  IN got(GetParsedDataByLocalId(st, type, local_id, TRUE, TRUE, FALSE))

RECURSIVE PushOrders(_, _, _, _)
\* the loop of GetOrderByLocalObjectIdsOnThread: local_ids is what is left of
\* the list, orders what has been pushed so far
PushOrders(st, type, local_ids, orders) ==
  IF local_ids = <<>> \/ st.crash THEN [st |-> st, ret |-> orders]
  ELSE LET got(r) ==
             PushOrders(r.st, type, Tail(local_ids), Append(orders, r.ret))
       IN got(GetOrderByLocalObjectIdOnThread(st, type, Head(local_ids)))

\* a variant that pushes an order only for ids that have one
GetOrdersOfKnownIds(st, type, local_ids) ==
  LET got(r) == [st |-> r.st, ret |-> SelectSeq(r.ret, LAMBDA o : o # EmptyStr)]
  IN got(PushOrders(st, type, local_ids, <<>>))

GetOrderByLocalObjectIdsOnThread(st, type, local_ids) ==
  PushOrders(st, type, local_ids, <<>>)

GetOrderByObjectIdOnThread(st, type, object_id) ==
  LET found(l) ==
        LET got(p) ==
              IF p.st.crash THEN [st |-> p.st, ret |-> EmptyStr]
              ELSE [st |-> DCheck(p.st, p.object_id = object_id), ret |-> p.order]
        IN got(GetParsedDataByLocalId(l.st, type, l.ret, TRUE, TRUE, FALSE))
  IN found(GetLocalIdByObjectIdOnThread(st, type, object_id))

\* level_db_->Put(...): ok is db_status.ok(); a Put that fails writes nothing
Put(st, key, value) ==
  IF st.put = 1 THEN [st |-> [st EXCEPT !.put = 0], ok |-> FALSE]
  ELSE [st |-> [st EXCEPT !.db = DbPut(@, key, value),
                          !.put = IF @ > 1 THEN @ - 1 ELSE 0],
        ok |-> TRUE]

\* a variant that takes the forward entry out again when the reverse Put fails
SaveObjectIdRawJsonRollingBack(st, raw_local_id, object_id_JSON, object_id) ==
  LET with(o) ==
        IF ~o.ret THEN [st |-> o.st, ret |-> FALSE]
        ELSE
          LET first(a) ==
                IF ~a.ok THEN [st |-> a.st, ret |-> FALSE]
                ELSE LET second(b) ==
                           IF b.ok THEN [st |-> b.st, ret |-> TRUE]
                           ELSE [st |-> [b.st EXCEPT !.db = o.st.db],
                                 ret |-> FALSE]
                     IN second(Put(a.st, object_id, raw_local_id))
          IN first(Put(o.st, raw_local_id, object_id_JSON))
  IN with(CreateOpenDatabase(st))

SaveObjectIdRawJson(st, raw_local_id, object_id_JSON, object_id) ==
  LET with(o) ==
        IF ~o.ret THEN [st |-> o.st, ret |-> FALSE]
        ELSE
          LET first(a) ==
                IF ~a.ok THEN [st |-> a.st, ret |-> FALSE]
                ELSE LET second(b) == [st |-> b.st, ret |-> b.ok]
                     IN second(Put(a.st, object_id, raw_local_id))
          IN first(Put(o.st, raw_local_id, object_id_JSON))
  IN with(CreateOpenDatabase(st))

SaveObjectIdOnThread(st, type, local_id, object_id) ==
  SaveObjectIdRawJson(st, ComposeRawLocalId(type, local_id),
                      RecordJsonNoOrder(object_id, st.api), object_id)

SaveObjectIdAndOrderInternal(st, type, local_id, object_id, order) ==
  SaveObjectIdRawJson(DCheck(st, st.api # EmptyStr),
                      ComposeRawLocalId(type, local_id),
                      RecordJson(object_id, order, st.api), object_id)

SaveObjectIdAndOrderOnThread(st, type, local_id, object_id, order) ==
  SaveObjectIdAndOrderInternal(st, type, local_id, object_id, order)

\* a variant that saves whenever the record decodes, empty object id or not
UpdateOrderOfAnyRecord(st, type, local_id, new_order) ==
  LET got(p) ==
        IF p.st.crash THEN [st |-> p.st, ret |-> FALSE]
        ELSE IF ~p.ret THEN [st |-> p.st, ret |-> FALSE]
        ELSE SaveObjectIdAndOrderInternal(p.st, type, local_id, p.object_id,
                                          new_order)
  IN got(GetParsedDataByLocalId(st, type, local_id, TRUE, TRUE, FALSE))

UpdateOrderByLocalObjectIdOnThread(st, type, local_id, new_order) ==
  LET got(p) ==
        IF p.st.crash THEN [st |-> p.st, ret |-> FALSE]
        ELSE IF ~p.ret \/ p.object_id = EmptyStr THEN [st |-> p.st, ret |-> FALSE]
        ELSE SaveObjectIdAndOrderInternal(p.st, type, local_id, p.object_id,
                                          new_order)
  IN got(GetParsedDataByLocalId(st, type, local_id, TRUE, TRUE, FALSE))

\* a variant for which a record that does not decode is an error
DeleteByLocalIdOfDecodedOnly(st, type, local_id) ==
  LET with(o) ==
        IF ~o.ret THEN [st |-> o.st, ret |-> FALSE]
        ELSE
          LET got(p) ==
                IF p.st.crash THEN [st |-> p.st, ret |-> FALSE]
                ELSE IF p.ret /\ p.object_id # EmptyStr
                  THEN [st |-> [p.st EXCEPT !.db =
                                  DbDelete(DbDelete(@, ComposeRawLocalId(type, local_id)),
                                           p.object_id)],
                        ret |-> TRUE]
                ELSE [st |-> p.st, ret |-> FALSE]
          IN got(GetParsedDataByLocalId(o.st, type, local_id, TRUE, FALSE, FALSE))
  IN with(CreateOpenDatabase(st))

DeleteByLocalIdOnThread(st, type, local_id) ==
  LET with(o) ==
        IF ~o.ret THEN [st |-> o.st, ret |-> FALSE]
        ELSE
          LET got(p) ==
                IF p.st.crash THEN [st |-> p.st, ret |-> FALSE]
                ELSE IF p.ret /\ p.object_id # EmptyStr
                  THEN [st |-> [p.st EXCEPT !.db =
                                  DbDelete(DbDelete(@, ComposeRawLocalId(type, local_id)),
                                           p.object_id)],
                        ret |-> TRUE]
                ELSE [st |-> [p.st EXCEPT !.db =
                                DbDelete(@, ComposeRawLocalId(type, local_id))],
                      ret |-> TRUE]
          IN got(GetParsedDataByLocalId(o.st, type, local_id, TRUE, FALSE, FALSE))
  IN with(CreateOpenDatabase(st))


\* the record type of a category; NOTREACHED() for any other category leaves
\* recordType empty in a release build
RecordType(type) ==
  CASE type = Bookmark -> <<"BOOKMARKS">>
    [] type = History -> <<"HISTORY_SITES">>
    [] OTHER -> EmptyStr

\* jslib_const::DELETE_RECORD
DELETE_RECORD == <<"2">>

RECURSIVE DeleteItemsLoop(_, _, _, _, _)
\* the loop of the DeleteItems branch over local_ids (a std::set, in order):
\* ids is what is left of local_ids, existing_list the set so far
DeleteItemsLoop(st, type, ids, existing_list, clear_local_db) ==
  IF ids = <<>> \/ st.crash THEN [st |-> st, ret |-> existing_list]
  ELSE
    LET id == Head(ids)
        items_removed == IF id \in existing_list THEN 1 ELSE 0
    IN DeleteItemsLoop(IF clear_local_db /\ items_removed # 0
                         THEN DeleteByLocalIdOnThread(st, type, id).st ELSE st,
                       type, Tail(ids), existing_list \ {id}, clear_local_db)

\* a variant that reports success without writing the set
SaveNotSyncedRecordsUnwritten(st, key, existing_list) ==
  LET o == CreateOpenDatabase(st)
  IN [st |-> o.st, ret |-> o.ret]

SaveNotSyncedRecords(st, key, existing_list) ==
  SaveObjectIdRawJson(st, key, SerializeList(existing_list), EmptyStr)

SaveGetDeleteNotSyncedRecordsOnThread(st, type, action, local_ids, operation) ==
  LET key == RecordType(type) \o action
      fetched(g) ==
        LET listed(dl) ==
              LET st1 == DCheck(g.st, ~dl.dcheck)
                  changed(upd) ==
                    IF upd.st.crash THEN [st |-> upd.st, ret |-> {}]
                    ELSE
                      LET saved(sv) ==
                            IF sv.ret THEN [st |-> sv.st, ret |-> upd.ret]
                            ELSE [st |-> sv.st, ret |-> {}]
                      IN saved(SaveNotSyncedRecords(upd.st, key, upd.ret))
              IN IF dl.crash THEN [st |-> Crash(st1), ret |-> {}]
                 ELSE IF operation = GetItems THEN [st |-> st1, ret |-> dl.ret]
                 ELSE IF operation = AddItems
                   THEN changed([st |-> st1, ret |-> dl.ret \cup local_ids])
                 ELSE changed(DeleteItemsLoop(st1, type, SortedSeq(local_ids),
                                              dl.ret, action = DELETE_RECORD))
        IN listed(DeserializeList(g.ret))
  IN fetched(GetRawJsonByLocalId(DCheck(st, type \in {Bookmark, History}), key))

\* a variant that also takes out the reverse entry of a record it deletes
ResetSyncOfMapping(st, key) ==
  LET with(o) ==
        IF ~o.ret THEN [st |-> o.st]
        ELSE LET val == JSONRead(DbGet(o.st.db, key))
             IN IF val.ok /\ val.v.k = "list" /\ Len(val.v.items) = 1
                  THEN [st |-> [o.st EXCEPT !.db =
                          DbDelete(DbDelete(@, key),
                                   FieldString(val.v.items[1], <<"object_id">>).s)]]
                  ELSE [st |-> [o.st EXCEPT !.db = DbDelete(@, key)]]
  IN with(CreateOpenDatabase(st))

\* the status of the Delete is not looked at
ResetSync(st, key) ==
  LET with(o) ==
        IF ~o.ret THEN [st |-> o.st]
        ELSE [st |-> [o.st EXCEPT !.db = DbDelete(@, key)]]
  IN with(CreateOpenDatabase(st))

\* a variant that closes the handle and leaves the directory in place
DestroyDBKeepingFiles(st) == [st EXCEPT !.open = FALSE]

\* CloseDBHandle, then leveldb::DestroyDB on the directory
DestroyDBOnThread(st) == [st EXCEPT !.open = FALSE, !.db = EmptyDb]

\* the same while a leveldb::DB of this process holds the directory's LOCK:
\* leveldb::DestroyDB returns an error, nothing is deleted, DCHECK(false)
DestroyDBOnThreadLocked(st) ==
  DCheck([st EXCEPT !.open = FALSE, !.failed = TRUE], FALSE)

-----------------------------------------------------------------------------
(* Arguments the callers pass *)

\* local-ids.  Every operation, and deletes: empty, a number, and one that starts with a
\* category prefix.  Interleaved calls: one number, every call being about
\* the same mapping.  Otherwise two numbers.
LocalIds ==
  CASE scope \in {"all", "delete"} -> {EmptyStr, <<"1">>, <<"b", "1">>}
    [] scope \in {"async", "close", "fair", "decode", "destroyasync"}
         -> {<<"1">>}
    [] OTHER -> {<<"1">>, <<"2">>}
\* object-ids.  Every operation, and deletes: empty, an ordinary one, and "b1", which is
\* also the raw key of (Bookmark, "1") and of (Unset, "b1").  Saves and order
\* updates: empty and an ordinary one.  Lists of local-ids, failing Puts
\* and interleaved calls: an ordinary one.  Otherwise two ordinary ones.
ObjectIds ==
  CASE scope \in {"all", "delete"} -> {EmptyStr, <<"o">>, <<"b", "1">>}
    [] scope = "order" -> {EmptyStr, <<"o">>}
    [] scope \in {"batch", "dualwrite", "async", "close", "fair", "decode",
                  "reset", "destroyasync"} -> {<<"o">>}
    [] OTHER -> {<<"o">>, <<"p">>}
Orders == {<<"1">>, <<"2">>}
\* API versions.  Where SetApiVersion is looked at: empty, and two values
ApiVersions ==
  IF scope = "version" THEN {EmptyStr, <<"v">>, <<"w">>} ELSE {<<"v">>}
\* action codes of the not-synced sets
NotSyncedActions == {<<"0">>, DELETE_RECORD}
NotSyncedTypes == {Bookmark, History}
NotSyncedIds ==
  IF scope \in {"all", "destroy"} THEN {<<"1">>} ELSE {<<"1">>, <<"2">>}
\* the text [{"<key>": "<value>"}]: a record with one field
RecordJsonOf(key, value) ==
  <<LBRACKET, LBRACE, QUOTE, key, QUOTE, COLON, QUOTE>> \o value
  \o <<QUOTE, RBRACE, RBRACKET>>
\* keys and texts given to SaveSpecialJson.  Where decoding is looked at: the
\* raw key of (Bookmark, "1"), and records with one field
SpecialKeys ==
  IF scope = "decode" THEN {ComposeRawLocalId(Bookmark, <<"1">>)} ELSE {<<"p">>}
SpecialJsons ==
  IF scope = "decode"
    THEN {RecordJsonOf("object_id", <<"o">>), RecordJsonOf("order", <<"1">>)}
    ELSE {<<LBRACE, RBRACE>>}

\* keys given to ResetSync: the forward keys, the reverse keys, the empty key
\* and one that is never written
ResetKeys ==
  {ComposeRawLocalId(type, local_id) : type \in Types, local_id \in LocalIds}
  \cup ObjectIds \cup {EmptyStr, <<"x">>}

\* lists of local-ids, repeated and unknown ones included
IdLists == UNION {[1..n -> LocalIds] : n \in 0..MaxBatchLen}

RECURSIVE StringsUpTo(_, _)
\* the strings of at most n tokens of A
StringsUpTo(A, n) ==
  IF n = 0 THEN {EmptyStr}
  ELSE LET shorter == StringsUpTo(A, n - 1)
       IN shorter \cup {<<a>> \o t : a \in A, t \in shorter}

\* local-ids given to the key codec
CodecIds == StringsUpTo({"b", "h", "1"}, MaxIdLen)

Limit ==
  CASE scope = "all" -> MaxOps
    [] scope = "mapping" -> MaxMappingOps
    [] scope = "purge" -> MaxPurgeOps
    [] scope = "notsynced" -> MaxNotSyncedOps
    [] scope = "order" -> MaxOrderOps
    [] scope = "destroy" -> MaxDestroyOps
    [] scope = "version" -> MaxVersionOps
    [] scope = "batch" -> MaxBatchOps
    [] scope = "dualwrite" -> MaxDualWriteOps
    [] scope = "async" -> MaxPosts
    [] scope = "close" -> MaxClosePosts
    [] scope = "fair" -> MaxFairPosts
    [] scope = "delete" -> MaxDeleteOps
    [] scope = "decode" -> MaxDecodeOps
    [] scope = "reset" -> MaxResetOps
    [] scope = "destroyasync" -> MaxDestroyPosts
    [] OTHER -> 0

-----------------------------------------------------------------------------
(* The state machine: one action per public operation, its handler run to  *)
(* completion on the sequencing worker                                     *)

NoCall ==
  [op |-> "none", type |-> Unset, local_id |-> EmptyStr, object_id |-> EmptyStr,
   order |-> EmptyStr, action |-> EmptyStr, ids |-> {}, operation |-> GetItems,
   ret |-> FALSE, out |-> EmptyStr, read_type |-> Unset, outs |-> {},
   dcheck |-> FALSE, failed |-> FALSE, before |-> {}, local_ids |-> <<>>,
   orders |-> <<>>, put |-> 0]

\* the object's state at the start of a handler during which the engine
\* refuses the first f attempts to open it
St(f) ==
  [db |-> db, open |-> level_db, fails |-> f, failed |-> FALSE,
   dcheck |-> FALSE, crash |-> FALSE, api |-> api_version, put |-> 0]

\* the same, the engine failing the w-th Put of the handler
StW(f, w) == [St(f) EXCEPT !.put = w]

OpenFails == IF level_db THEN {0} ELSE 0..MaxOpenFails

\* which Put of a save the engine fails: none, the forward one, the reverse one
FailingPuts == IF scope = "dualwrite" THEN 0..2 ELSE {0}

CanRun == ~crashed /\ steps < Limit

\* the handler returned r (or died); call is what it was called with
Done(r, call) ==
  /\ db' = r.st.db
  /\ level_db' = r.st.open
  /\ crashed' = r.st.crash
  /\ dchecks' = (dchecks \/ r.st.dcheck)
  /\ last' = [call EXCEPT !.dcheck = r.st.dcheck, !.failed = r.st.failed]
  /\ steps' = steps + 1
  /\ UNCHANGED <<api_version, scope, tasks>>

\* nothing posted, nothing running
InitTasks ==
  /\ posted = <<>>
  /\ queue = <<>>
  /\ running = 0
  /\ released = FALSE
  /\ replies = <<>>
  /\ delivered = <<>>
  /\ shutdown = FALSE

InitObject ==
  /\ db = EmptyDb
  /\ level_db = FALSE
  /\ api_version = EmptyStr
  /\ last = NoCall
  /\ crashed = FALSE
  /\ dchecks = FALSE
  /\ steps = 0
  /\ InitTasks

\* runs in the calling context; its DCHECKs ask for a non-empty value and an
\* api_version_ not yet set
SetApiVersion ==
  /\ ~crashed
  /\ ~shutdown
  /\ \E v \in ApiVersions :
       /\ api_version' = v
       /\ dchecks' = (dchecks \/ v = EmptyStr \/ api_version # EmptyStr)
       /\ last' = [NoCall EXCEPT !.op = "SetApiVersion", !.out = v,
                     !.dcheck = (v = EmptyStr \/ api_version # EmptyStr)]
  /\ UNCHANGED <<db, level_db, crashed, steps, scope, tasks>>

GetLocalIdByObjectId ==
  /\ CanRun
  /\ \E f \in OpenFails, type \in Types, object_id \in ObjectIds :
       LET r == GetLocalIdByObjectIdOnThread(
                  DCheck(St(f), object_id # EmptyStr), type, object_id)
       IN Done(r, [NoCall EXCEPT !.op = "GetLocalIdByObjectId", !.type = type,
                     !.object_id = object_id, !.out = r.ret])

GetObjectIdByLocalId ==
  /\ CanRun
  /\ \E f \in OpenFails, type \in Types, local_id \in LocalIds :
       LET r == GetObjectIdByLocalIdOnThread(St(f), type, local_id)
       IN Done(r, [NoCall EXCEPT !.op = "GetObjectIdByLocalId", !.type = type,
                     !.local_id = local_id, !.out = r.ret])

GetOrderByObjectId ==
  /\ CanRun
  /\ \E f \in OpenFails, type \in Types, object_id \in ObjectIds :
       LET r == GetOrderByObjectIdOnThread(St(f), type, object_id)
       IN Done(r, [NoCall EXCEPT !.op = "GetOrderByObjectId", !.type = type,
                     !.object_id = object_id, !.out = r.ret])

GetOrderByLocalObjectId ==
  /\ CanRun
  /\ \E f \in OpenFails, type \in Types, local_id \in LocalIds :
       LET r == GetOrderByLocalObjectIdOnThread(St(f), type, local_id)
       IN Done(r, [NoCall EXCEPT !.op = "GetOrderByLocalObjectId", !.type = type,
                     !.local_id = local_id, !.out = r.ret])

GetOrderByLocalObjectIds ==
  /\ CanRun
  /\ \E f \in OpenFails, type \in Types, local_ids \in IdLists :
       LET r == GetOrderByLocalObjectIdsOnThread(St(f), type, local_ids)
       IN Done(r, [NoCall EXCEPT !.op = "GetOrderByLocalObjectIds",
                     !.type = type, !.local_ids = local_ids, !.orders = r.ret])

GetSpecialJSONByLocalId ==
  /\ CanRun
  /\ \E f \in OpenFails, local_id \in SpecialKeys :
       LET r == GetRawJsonByLocalId(St(f), local_id)
       IN Done(r, [NoCall EXCEPT !.op = "GetSpecialJSONByLocalId",
                     !.local_id = local_id, !.out = r.ret])

SaveObjectId ==
  /\ CanRun
  /\ \E f \in OpenFails, w \in FailingPuts, type \in Types,
        local_id \in LocalIds, object_id \in ObjectIds :
       LET r == SaveObjectIdOnThread(StW(f, w), type, local_id, object_id)
       IN Done(r, [NoCall EXCEPT !.op = "SaveObjectId", !.type = type,
                     !.local_id = local_id, !.object_id = object_id,
                     !.ret = r.ret, !.put = w])

SaveObjectIdAndOrder ==
  /\ CanRun
  /\ \E f \in OpenFails, w \in FailingPuts, type \in Types,
        local_id \in LocalIds, object_id \in ObjectIds, order \in Orders :
       LET r == SaveObjectIdAndOrderOnThread(StW(f, w), type, local_id,
                                             object_id, order)
       IN Done(r, [NoCall EXCEPT !.op = "SaveObjectIdAndOrder", !.type = type,
                     !.local_id = local_id, !.object_id = object_id,
                     !.order = order, !.ret = r.ret, !.put = w])

\* posts SaveObjectIdAndOrderOnThread; its DCHECKs in the calling context
\* ask for a non-empty local_id, object_id and order, and it is called so
CreateOrderByLocalObjectId ==
  /\ CanRun
  /\ \E f \in OpenFails, type \in Types, local_id \in LocalIds \ {EmptyStr},
        object_id \in ObjectIds \ {EmptyStr}, order \in Orders :
       LET r == SaveObjectIdAndOrderOnThread(St(f), type, local_id, object_id, order)
       IN Done(r, [NoCall EXCEPT !.op = "CreateOrderByLocalObjectId",
                     !.type = type, !.local_id = local_id,
                     !.object_id = object_id, !.order = order, !.ret = r.ret])

UpdateOrderByLocalObjectId ==
  /\ CanRun
  /\ \E f \in OpenFails, type \in Types, local_id \in LocalIds, order \in Orders :
       LET r == UpdateOrderByLocalObjectIdOnThread(St(f), type, local_id, order)
       IN Done(r, [NoCall EXCEPT !.op = "UpdateOrderByLocalObjectId",
                     !.type = type, !.local_id = local_id, !.order = order,
                     !.ret = r.ret])

SaveSpecialJson ==
  /\ CanRun
  /\ \E f \in OpenFails, local_id \in SpecialKeys, special_JSON \in SpecialJsons :
       LET r == SaveObjectIdRawJson(St(f), local_id, special_JSON, EmptyStr)
       IN Done(r, [NoCall EXCEPT !.op = "SaveSpecialJson", !.local_id = local_id,
                     !.order = special_JSON, !.ret = r.ret])

DeleteByLocalId ==
  /\ CanRun
  /\ \E f \in OpenFails, type \in Types, local_id \in LocalIds :
       LET r == DeleteByLocalIdOnThread(St(f), type, local_id)
       IN Done(r, [NoCall EXCEPT !.op = "DeleteByLocalId", !.type = type,
                     !.local_id = local_id, !.ret = r.ret])

SaveGetDeleteNotSyncedRecords ==
  /\ CanRun
  /\ \E f \in OpenFails, type \in NotSyncedTypes, action \in NotSyncedActions,
        local_ids \in SUBSET NotSyncedIds,
        operation \in {GetItems, AddItems, DeleteItems} :
       LET r == SaveGetDeleteNotSyncedRecordsOnThread(St(f), type, action,
                                                      local_ids, operation)
       IN Done(r, [NoCall EXCEPT !.op = "SaveGetDeleteNotSyncedRecords",
                     !.type = type, !.action = action, !.ids = local_ids,
                     !.operation = operation, !.outs = r.ret])

\* Close() with no task pending: the handle is released and deleted
Close ==
  /\ CanRun
  /\ level_db' = FALSE
  /\ last' = [NoCall EXCEPT !.op = "Close"]
  /\ steps' = steps + 1
  /\ UNCHANGED <<db, api_version, crashed, dchecks, scope, tasks>>

DestroyDB ==
  /\ CanRun
  /\ Done([st |-> DestroyDBOnThread(St(0))],
          [NoCall EXCEPT !.op = "DestroyDB", !.before = DOMAIN db])

\* ResetSync(key), called on the worker's sequence
ResetSyncCall ==
  /\ CanRun
  /\ \E f \in OpenFails, key \in ResetKeys :
       Done(ResetSync(St(f), key),
            [NoCall EXCEPT !.op = "ResetSync", !.local_id = key])

\* the key codec applied to one (category, local-id): compose, then split
SplitComposed ==
  /\ last.op = "ComposeRawLocalId"
  /\ LET sp == SplitRawLocalId(ComposeRawLocalId(last.type, last.local_id))
     IN last' = [last EXCEPT !.op = "SplitRawLocalId", !.out = sp.local_id,
                              !.read_type = sp.read_type]
  /\ UNCHANGED <<db, level_db, api_version, crashed, dchecks, steps, scope,
                 tasks>>

-----------------------------------------------------------------------------
(* Calls and tasks interleaved.  A public operation posts its handler to   *)
(* task_runner_ and returns; the worker runs the posted tasks one at a     *)
(* time; a handler's result is posted back and its callback runs in the    *)
(* calling context.  Close() runs in the calling context.                  *)

\* categories of the interleaved calls
CallTypes == {Bookmark}

NoRequest ==
  [op |-> "none", type |-> Unset, local_id |-> EmptyStr, object_id |-> EmptyStr,
   order |-> EmptyStr, object |-> FALSE]

CanCall == ~crashed /\ ~shutdown /\ Len(posted) < Limit

\* PostTaskAndReplyWithResult(task_runner_.get(), ..., BindOnce(handler,
\* Unretained(this), arguments), callback): the arguments are copied into
\* the task
PostTask(request) ==
  /\ posted' = Append(posted, request)
  /\ queue' = Append(queue, Len(posted) + 1)
  /\ UNCHANGED <<db, level_db, api_version, last, crashed, dchecks, steps,
                 scope, running, released, replies, delivered, shutdown>>

CallSaveObjectIdAndOrder ==
  /\ CanCall
  /\ \E type \in CallTypes, local_id \in LocalIds, object_id \in ObjectIds,
        order \in Orders :
       PostTask([NoRequest EXCEPT !.op = "SaveObjectIdAndOrder", !.type = type,
                   !.local_id = local_id, !.object_id = object_id,
                   !.order = order])

CallUpdateOrderByLocalObjectId ==
  /\ CanCall
  /\ \E type \in CallTypes, local_id \in LocalIds, order \in Orders :
       PostTask([NoRequest EXCEPT !.op = "UpdateOrderByLocalObjectId",
                   !.type = type, !.local_id = local_id, !.order = order])

CallGetOrderByLocalObjectId ==
  /\ CanCall
  /\ \E type \in CallTypes, local_id \in LocalIds :
       PostTask([NoRequest EXCEPT !.op = "GetOrderByLocalObjectId",
                   !.type = type, !.local_id = local_id])

\* task_runner_->PostTaskAndReply(FROM_HERE, BindOnce(DestroyDBOnThread,
\* Unretained(this)), callback)
CallDestroyDB ==
  /\ CanCall
  /\ PostTask([NoRequest EXCEPT !.op = "DestroyDB"])

\* task_runner_->DeleteSoon(FROM_HERE, level_db_.release()): the handle is
\* taken out of level_db_ here, in the calling context, and the task that
\* deletes the leveldb::DB is posted behind the tasks already posted
CallClose ==
  /\ CanCall
  /\ posted' = Append(posted, [NoRequest EXCEPT !.op = "Close",
                                               !.object = level_db])
  /\ queue' = Append(queue, Len(posted) + 1)
  /\ level_db' = FALSE
  /\ released' = (released \/ level_db)
  /\ UNCHANGED <<db, api_version, last, crashed, dchecks, steps, scope,
                 running, replies, delivered, shutdown>>

\* a variant of the runner that starts the task posted last
TakeNewest(q) == Len(q)

\* which of the posted tasks a sequenced task runner starts: the oldest
TakeIndex(q) == 1

\* q without its i-th task
Without(q, i) == SubSeq(q, 1, i - 1) \o SubSeq(q, i + 1, Len(q))

\* the handler of a call
RunHandler(st, call) ==
  CASE call.op = "SaveObjectIdAndOrder" ->
         LET saved(r) == [st |-> r.st, ret |-> r.ret, out |-> EmptyStr]
         IN saved(SaveObjectIdAndOrderOnThread(st, call.type, call.local_id,
                                               call.object_id, call.order))
    [] call.op = "UpdateOrderByLocalObjectId" ->
         LET saved(r) == [st |-> r.st, ret |-> r.ret, out |-> EmptyStr]
         IN saved(UpdateOrderByLocalObjectIdOnThread(st, call.type,
                                                     call.local_id, call.order))
    [] OTHER ->
         LET found(r) == [st |-> r.st, ret |-> FALSE, out |-> r.ret]
         IN found(GetOrderByLocalObjectIdOnThread(st, call.type, call.local_id))

\* the handler of call id returned r (or died) and its reply is posted;
\* open: what level_db_ holds afterwards
Finished(id, r, open) ==
  /\ db' = r.st.db
  /\ level_db' = open
  /\ crashed' = r.st.crash
  /\ dchecks' = (dchecks \/ r.st.dcheck)
  /\ replies' = IF r.st.crash THEN replies
                ELSE Append(replies, [id |-> id, ret |-> r.ret, out |-> r.out,
                                      failed |-> r.st.failed])
  /\ running' = 0

\* leveldb::DB::Open on a directory whose LOCK is held by a leveldb::DB of
\* this process fails, at each attempt of the handler
Locked == [St(0) EXCEPT !.fails = Len(posted) + 1]

\* the worker takes the next task.  The deleting task deletes the released
\* leveldb::DB.  DestroyDBOnThread opens nothing and runs in one piece.  A
\* handler goes through CreateOpenDatabase first: with the
\* handle set, or none and the directory free, it is past its open check;
\* with the LOCK held the open is refused and the handler runs on that.
WorkerBegins ==
  /\ ~crashed
  /\ ~shutdown
  /\ running = 0
  /\ queue # <<>>
  /\ LET id == queue[TakeIndex(queue)]
     IN /\ queue' = Without(queue, TakeIndex(queue))
        /\ IF posted[id].op = "Close"
             THEN /\ released' = (released /\ ~posted[id].object)
                  /\ UNCHANGED <<db, level_db, crashed, dchecks, running,
                                 replies>>
           ELSE IF posted[id].op = "DestroyDB"
             THEN /\ Finished(id,
                              [st |-> IF released
                                        THEN DestroyDBOnThreadLocked(St(0))
                                        ELSE DestroyDBOnThread(St(0)),
                               ret |-> FALSE, out |-> EmptyStr],
                              FALSE)
                  /\ UNCHANGED released
           ELSE IF level_db \/ ~released
             THEN /\ level_db' = TRUE
                  /\ running' = id
                  /\ UNCHANGED <<db, crashed, dchecks, released, replies>>
           ELSE /\ Finished(id, RunHandler(Locked, posted[id]), FALSE)
                /\ UNCHANGED released
  /\ UNCHANGED <<api_version, last, steps, scope, posted, delivered, shutdown>>

\* the task past its open check runs to its end.  When Close() has taken
\* the handle meanwhile, the task uses level_db_ while the calling context
\* writes it: it goes on with the pointer it has read, or uses the null one
WorkerFinishes ==
  /\ ~crashed
  /\ ~shutdown
  /\ running # 0
  /\ IF level_db
       THEN Finished(running, RunHandler(St(0), posted[running]), TRUE)
     ELSE \/ Finished(running,
                      RunHandler([St(0) EXCEPT !.open = TRUE], posted[running]),
                      FALSE)
          \/ Finished(running,
                      [st |-> Crash(St(0)), ret |-> FALSE, out |-> EmptyStr],
                      FALSE)
  /\ UNCHANGED <<api_version, last, steps, scope, posted, queue, released,
                 delivered, shutdown>>

\* the reply posted to the calling context runs the callback with the result
ReplyRuns ==
  /\ ~crashed
  /\ ~shutdown
  /\ replies # <<>>
  /\ delivered' = Append(delivered, Head(replies))
  /\ replies' = Tail(replies)
  /\ UNCHANGED <<db, level_db, api_version, last, crashed, dchecks, steps,
                 scope, posted, queue, running, released, shutdown>>

\* the browser shuts down: with TaskShutdownBehavior::SKIP_ON_SHUTDOWN the
\* tasks not yet started are never run
Shutdown ==
  /\ ~crashed
  /\ ~shutdown
  /\ shutdown' = TRUE
  /\ UNCHANGED <<db, level_db, api_version, last, crashed, dchecks, steps,
                 scope, posted, queue, running, released, replies, delivered>>

-----------------------------------------------------------------------------
(* Specifications *)

\* every operation
Init == InitObject /\ scope = "all"

Next ==
  \/ SetApiVersion
  \/ GetLocalIdByObjectId
  \/ GetObjectIdByLocalId
  \/ GetOrderByObjectId
  \/ GetOrderByLocalObjectId
  \/ GetOrderByLocalObjectIds
  \/ GetSpecialJSONByLocalId
  \/ SaveObjectId
  \/ SaveObjectIdAndOrder
  \/ CreateOrderByLocalObjectId
  \/ UpdateOrderByLocalObjectId
  \/ SaveSpecialJson
  \/ DeleteByLocalId
  \/ SaveGetDeleteNotSyncedRecords
  \/ Close
  \/ DestroyDB

Spec == Init /\ [][Next]_vars

\* the operations that save, reorder and delete mappings
InitMapping == InitObject /\ scope = "mapping"

NextMapping ==
  \/ SetApiVersion
  \/ SaveObjectId
  \/ SaveObjectIdAndOrder
  \/ CreateOrderByLocalObjectId
  \/ UpdateOrderByLocalObjectId
  \/ DeleteByLocalId

SpecMapping == InitMapping /\ [][NextMapping]_vars

\* saves and the not-synced sets
InitPurge == InitObject /\ scope = "purge"

NextPurge ==
  \/ SetApiVersion
  \/ SaveObjectId
  \/ SaveObjectIdAndOrder
  \/ SaveGetDeleteNotSyncedRecords

SpecPurge == InitPurge /\ [][NextPurge]_vars

\* the not-synced sets alone
InitNotSynced == InitObject /\ scope = "notsynced"

NextNotSynced == SaveGetDeleteNotSyncedRecords

SpecNotSynced == InitNotSynced /\ [][NextNotSynced]_vars

\* saves and order updates
InitOrder == InitObject /\ scope = "order"

NextOrder ==
  \/ SetApiVersion
  \/ SaveObjectId
  \/ SaveObjectIdAndOrder
  \/ UpdateOrderByLocalObjectId

SpecOrder == InitOrder /\ [][NextOrder]_vars

\* writes of every kind, Close and DestroyDB
InitDestroy == InitObject /\ scope = "destroy"

NextDestroy ==
  \/ SetApiVersion
  \/ SaveObjectIdAndOrder
  \/ SaveSpecialJson
  \/ SaveGetDeleteNotSyncedRecords
  \/ Close
  \/ DestroyDB

SpecDestroy == InitDestroy /\ [][NextDestroy]_vars

\* SetApiVersion with every value, saves, and lookups of what was saved
InitVersion == InitObject /\ scope = "version"

NextVersion ==
  \/ SetApiVersion
  \/ SaveObjectIdAndOrder
  \/ GetObjectIdByLocalId

SpecVersion == InitVersion /\ [][NextVersion]_vars

\* saves and lookups of the orders of a list of local-ids
InitBatch == InitObject /\ scope = "batch"

NextBatch ==
  \/ SetApiVersion
  \/ SaveObjectIdAndOrder
  \/ GetOrderByLocalObjectIds

SpecBatch == InitBatch /\ [][NextBatch]_vars

\* saves during which the engine may fail a Put, and reverse lookups
InitDualWrite == InitObject /\ scope = "dualwrite"

NextDualWrite ==
  \/ SetApiVersion
  \/ SaveObjectId
  \/ SaveObjectIdAndOrder
  \/ GetLocalIdByObjectId

SpecDualWrite == InitDualWrite /\ [][NextDualWrite]_vars

\* calls, tasks and replies interleaved
InitAsync == InitObject /\ scope = "async"

NextAsync ==
  \/ SetApiVersion
  \/ CallSaveObjectIdAndOrder
  \/ CallUpdateOrderByLocalObjectId
  \/ CallGetOrderByLocalObjectId
  \/ CallClose
  \/ WorkerBegins
  \/ WorkerFinishes
  \/ ReplyRuns

SpecAsync == InitAsync /\ [][NextAsync]_vars

\* saves, reads, DestroyDB and Close, interleaved with tasks and replies
InitDestroyAsync == InitObject /\ scope = "destroyasync"

NextDestroyAsync ==
  \/ SetApiVersion
  \/ CallSaveObjectIdAndOrder
  \/ CallGetOrderByLocalObjectId
  \/ CallDestroyDB
  \/ CallClose
  \/ WorkerBegins
  \/ WorkerFinishes
  \/ ReplyRuns

SpecDestroyAsync == InitDestroyAsync /\ [][NextDestroyAsync]_vars

\* the calls of SpecAsync, with one call more
InitClose == InitObject /\ scope = "close"

SpecClose == InitClose /\ [][NextAsync]_vars

\* the same and the shutdown; the worker keeps running tasks while there
\* are some and posted replies are run
InitFair == InitObject /\ scope = "fair"

NextFair ==
  \/ NextAsync
  \/ Shutdown

\* what a WorkerBegins step does to the queue
TaskTaken ==
  /\ ~crashed
  /\ ~shutdown
  /\ running = 0
  /\ queue # <<>>
  /\ queue' = Without(queue, TakeIndex(queue))

\* what a WorkerFinishes step does to the worker
TaskEnded ==
  /\ ~crashed
  /\ ~shutdown
  /\ running # 0
  /\ running' = 0

\* the steps that take a task from the queue are the WorkerBegins steps and
\* those that end the running task the WorkerFinishes steps, so this is weak
\* fairness of WorkerBegins, WorkerFinishes and ReplyRuns
SpecFair ==
  /\ InitFair
  /\ [][NextFair]_vars
  /\ WF_queue(TaskTaken)
  /\ WF_running(TaskEnded)
  /\ WF_vars(ReplyRuns)

\* saves and deletes, with every kind of id
InitDelete == InitObject /\ scope = "delete"

NextDelete ==
  \/ SetApiVersion
  \/ SaveObjectIdAndOrder
  \/ DeleteByLocalId

SpecDelete == InitDelete /\ [][NextDelete]_vars

\* records written as raw JSON, and the operations that read an order
InitDecode == InitObject /\ scope = "decode"

NextDecode ==
  \/ SetApiVersion
  \/ SaveObjectIdAndOrder
  \/ SaveSpecialJson
  \/ GetOrderByLocalObjectId
  \/ GetOrderByObjectId
  \/ UpdateOrderByLocalObjectId

SpecDecode == InitDecode /\ [][NextDecode]_vars

\* saves and ResetSync
InitReset == InitObject /\ scope = "reset"

NextReset ==
  \/ SetApiVersion
  \/ SaveObjectIdAndOrder
  \/ ResetSyncCall

SpecReset == InitReset /\ [][NextReset]_vars

\* the key codec on every category and local-id
InitCodec ==
  /\ db = EmptyDb
  /\ level_db = FALSE
  /\ api_version = EmptyStr
  /\ crashed = FALSE
  /\ dchecks = FALSE
  /\ steps = 0
  /\ InitTasks
  /\ scope = "codec"
  /\ \E type \in Types, local_id \in CodecIds :
       last = [NoCall EXCEPT !.op = "ComposeRawLocalId", !.type = type,
                 !.local_id = local_id]

NextCodec == SplitComposed

SpecCodec == InitCodec /\ [][NextCodec]_vars

-----------------------------------------------------------------------------
(* What a lookup answers on a given store content *)

\* the object's state with an open handle on the store content d
StOf(d) ==
  [db |-> d, open |-> TRUE, fails |-> 0, failed |-> FALSE, dcheck |-> FALSE,
   crash |-> FALSE, api |-> api_version, put |-> 0]

\* the lookup r completed and answered v
Answers(r, v) == ~r.st.crash /\ r.ret = v

ObjectIdIn(d, type, local_id) ==
  GetObjectIdByLocalIdOnThread(StOf(d), type, local_id)
OrderIn(d, type, local_id) ==
  GetOrderByLocalObjectIdOnThread(StOf(d), type, local_id)
LocalIdIn(d, type, object_id) ==
  GetLocalIdByObjectIdOnThread(StOf(d), type, object_id)
ParsedIn(d, type, local_id) ==
  GetParsedDataByLocalId(StOf(d), type, local_id, TRUE, TRUE, FALSE)

\* the forward record of (type, local_id) decodes and names object_id
ForwardIs(d, type, local_id, object_id) ==
  LET p == ParsedIn(d, type, local_id)
  IN ~p.st.crash /\ p.ret /\ p.object_id = object_id

\* a key is stored under (type, local_id) and object_id leads back to it
SavedPair(d, type, local_id, object_id) ==
  /\ DbHas(d, ComposeRawLocalId(type, local_id))
  /\ DbHas(d, object_id)
  /\ DbGet(d, object_id) = ComposeRawLocalId(type, local_id)

\* the not-synced set stored for (type, action)
NotSyncedSet(d, type, action) ==
  DeserializeList(DbGet(d, RecordType(type) \o action)).ret

\* the entry under key k is the same in d and e
SameEntry(d, e, k) == DbHas(d, k) = DbHas(e, k) /\ DbGet(d, k) = DbGet(e, k)

\* the handler that just ran had the store available and completed
Completed(call, dead) == ~dead /\ ~call.failed

-----------------------------------------------------------------------------
(* C1 *)

\* C1: after SaveObjectIdAndOrder(c, L, O, Ord) has returned true,
\* GetObjectIdByLocalId(c, L) returns O, GetOrderByLocalObjectId(c, L)
\* returns Ord and GetLocalIdByObjectId(c, O) returns L, for every category,
\* local-id, object-id (here: non-empty) and prior content of the store.
C1_SaveThenLookup ==
  (/\ last.op = "SaveObjectIdAndOrder"
   /\ last.ret
   /\ Completed(last, crashed)
   /\ ~dchecks
   /\ last.object_id # EmptyStr)
  => /\ Answers(ObjectIdIn(db, last.type, last.local_id), last.object_id)
     /\ Answers(OrderIn(db, last.type, last.local_id), last.order)
     /\ Answers(LocalIdIn(db, last.type, last.object_id), last.local_id)

-----------------------------------------------------------------------------
(* C2 *)

\* C2: the two directions never diverge: whenever the forward record stored
\* for (c, L) names object-id O, a reverse entry exists under O and its value
\* is the raw key of (c, L); this after any sequence of SaveObjectId,
\* SaveObjectIdAndOrder, CreateOrderByLocalObjectId,
\* UpdateOrderByLocalObjectId and DeleteByLocalId, two local-ids saved with
\* the same object-id included.
C2_ForwardHasReverse ==
  (~crashed /\ ~dchecks)
  => \A type \in Types, local_id \in LocalIds, object_id \in ObjectIds :
       ForwardIs(db, type, local_id, object_id)
       => /\ DbHas(db, object_id)
          /\ DbGet(db, object_id) = ComposeRawLocalId(type, local_id)

-----------------------------------------------------------------------------
(* C3 *)

\* C3: no stale reverse entry: when (c, L) is mapped to O1 and
\* SaveObjectIdAndOrder(c, L, O2) with another object-id O2 returns true,
\* GetLocalIdByObjectId(c, O1) returns the empty string afterwards.
C3_NoStaleReverse ==
  [][(/\ last'.op = "SaveObjectIdAndOrder"
      /\ last'.ret
      /\ Completed(last', crashed')
      /\ ~dchecks')
     => \A object_id \in ObjectIds \ {last'.object_id} :
          (/\ ForwardIs(db, last'.type, last'.local_id, object_id)
           /\ SavedPair(db, last'.type, last'.local_id, object_id))
          => Answers(LocalIdIn(db', last'.type, object_id), EmptyStr)]_vars

-----------------------------------------------------------------------------
(* C4 *)

\* C4: when a save of (c, L, O) is in the store (by SaveObjectId,
\* SaveObjectIdAndOrder or CreateOrderByLocalObjectId) and
\* DeleteByLocalId(c, L) returns true, GetObjectIdByLocalId(c, L) and
\* GetLocalIdByObjectId(c, O) both return the empty string afterwards.
C4_DeleteRemovesBoth ==
  [][(/\ last'.op = "DeleteByLocalId"
      /\ last'.ret
      /\ Completed(last', crashed')
      /\ ~dchecks')
     => \A object_id \in ObjectIds :
          SavedPair(db, last'.type, last'.local_id, object_id)
          => /\ Answers(ObjectIdIn(db', last'.type, last'.local_id), EmptyStr)
             /\ Answers(LocalIdIn(db', last'.type, object_id), EmptyStr)]_vars

-----------------------------------------------------------------------------
(* C5 *)

\* UpdateOrderByLocalObjectId(c, L, .) has just run to completion on a
\* store where (c, L) has no forward record, an undecodable one, or one with
\* an empty object id
UpdateWithoutMapping ==
  /\ last'.op = "UpdateOrderByLocalObjectId"
  /\ Completed(last', crashed')
  /\ LET p == ParsedIn(db, last'.type, last'.local_id)
     IN ~p.st.crash /\ (~p.ret \/ p.object_id = EmptyStr)

\* C5, as written: UpdateOrderByLocalObjectId on a local-id with no forward
\* record, an undecodable one or one with an empty object id returns false,
\* leaves every key/value pair unchanged, and GetOrderByLocalObjectId(c, L)
\* returns the empty string afterwards.
C5_UpdateMissingThenEmptyOrder ==
  [][(UpdateWithoutMapping /\ ~dchecks')
     => /\ ~last'.ret
        /\ db' = db
        /\ Answers(OrderIn(db', last'.type, last'.local_id), EmptyStr)]_vars

\* C5, amended: ... returns false and leaves every key/value pair unchanged;
\* GetOrderByLocalObjectId(c, L) returns afterwards what it returned before,
\* which is the empty string when there is no decodable forward record.
C5_UpdateMissingKeepsOrder ==
  [][UpdateWithoutMapping
     => /\ ~last'.ret
        /\ db' = db
        /\ OrderIn(db', last'.type, last'.local_id).ret
             = OrderIn(db, last'.type, last'.local_id).ret
        /\ ~OrderIn(db', last'.type, last'.local_id).st.crash
        /\ (~ParsedIn(db, last'.type, last'.local_id).ret
            => Answers(OrderIn(db', last'.type, last'.local_id), EmptyStr))]_vars

\* an update on a local-id without forward record failed, other records being
\* in the store
C5_UpdateMissingSeen ==
  /\ last.op = "UpdateOrderByLocalObjectId"
  /\ Completed(last, crashed)
  /\ ~last.ret
  /\ ~DbHas(db, ComposeRawLocalId(last.type, last.local_id))
  /\ db # EmptyDb

-----------------------------------------------------------------------------
(* C6 *)

\* C6: SplitRawLocalId(ComposeRawLocalId(c, s)) = (s, c) for every category
\* c and string s, the empty string and strings that start with 'b' or 'h'
\* included.
C6_SplitInvertsCompose ==
  last.op = "SplitRawLocalId"
  => last.out = last.local_id /\ last.read_type = last.type

-----------------------------------------------------------------------------
(* C7 *)

\* C7: each SaveGetDeleteNotSyncedRecords call that completes with the
\* store available leaves the set stored for its (category, action) equal to
\* the reference set: the union with the ids for AddItems, the difference
\* for DeleteItems, the same set for GetItems; the call returns that set, the
\* sets of the other (category, action) pairs stay as they were and GetItems
\* writes nothing.  Adding a member or deleting a non-member changes nothing.
C7_NotSyncedSetIsReference ==
  [][(/\ last'.op = "SaveGetDeleteNotSyncedRecords"
      /\ Completed(last', crashed'))
     => LET before == NotSyncedSet(db, last'.type, last'.action)
            after == NotSyncedSet(db', last'.type, last'.action)
        IN /\ last'.operation = GetItems => after = before /\ db' = db
           /\ last'.operation = AddItems => after = before \cup last'.ids
           /\ last'.operation = DeleteItems => after = before \ last'.ids
           /\ last'.outs = after
           /\ \A type \in NotSyncedTypes, action \in NotSyncedActions :
                <<type, action>> # <<last'.type, last'.action>>
                => NotSyncedSet(db', type, action) = NotSyncedSet(db, type, action)
       ]_vars

\* a DeleteItems call took one id out of a stored set of two
C7_DeleteFromTwoSeen ==
  /\ last.op = "SaveGetDeleteNotSyncedRecords"
  /\ Completed(last, crashed)
  /\ last.operation = DeleteItems
  /\ last.ids = {<<"1">>}
  /\ last.outs = {<<"2">>}
  /\ NotSyncedSet(db, last.type, last.action) = {<<"2">>}

-----------------------------------------------------------------------------
(* C8 *)

\* C8: DeleteItems with action DELETE_RECORD purges the mapping of every id
\* it removes from the set: for an id that was a member and whose pair
\* (c, id, O) was in the store, GetObjectIdByLocalId(c, id) and
\* GetLocalIdByObjectId(c, O) return the empty string afterwards and the
\* set no longer holds the id.
C8_PurgeRemovesMapping ==
  [][(/\ last'.op = "SaveGetDeleteNotSyncedRecords"
      /\ last'.operation = DeleteItems
      /\ last'.action = DELETE_RECORD
      /\ Completed(last', crashed')
      /\ ~dchecks')
     => \A id \in last'.ids \cap NotSyncedSet(db, last'.type, last'.action),
           object_id \in ObjectIds :
          SavedPair(db, last'.type, id, object_id)
          => /\ Answers(ObjectIdIn(db', last'.type, id), EmptyStr)
             /\ Answers(LocalIdIn(db', last'.type, object_id), EmptyStr)
             /\ id \notin NotSyncedSet(db', last'.type, last'.action)]_vars

-----------------------------------------------------------------------------
(* C9 *)

\* the forward record of (type, local_id), when it decodes and names a
\* non-empty object id, and the reverse entry under that object id are the
\* same in d and e
MappingUnchanged(d, e, type, local_id) ==
  LET p == ParsedIn(d, type, local_id)
  IN (~p.st.crash /\ p.ret /\ p.object_id # EmptyStr)
     => /\ SameEntry(d, e, ComposeRawLocalId(type, local_id))
        /\ SameEntry(d, e, p.object_id)

\* C9: DeleteItems leaves the mapping of a requested id as it was when the
\* action is not DELETE_RECORD or the id was no member of the set; GetItems
\* and AddItems change no mapping record at all.
C9_MappingsIntact ==
  [][(/\ last'.op = "SaveGetDeleteNotSyncedRecords"
      /\ Completed(last', crashed')
      /\ ~dchecks')
     => /\ last'.operation \in {GetItems, AddItems}
           => \A type \in Types, local_id \in LocalIds :
                MappingUnchanged(db, db', type, local_id)
        /\ last'.operation = DeleteItems
           => \A id \in last'.ids :
                (\/ last'.action # DELETE_RECORD
                 \/ id \notin NotSyncedSet(db, last'.type, last'.action))
                => MappingUnchanged(db, db', last'.type, id)]_vars

-----------------------------------------------------------------------------
(* C10 *)

\* every lookup on store content d, the handle closed and the engine
\* willing to open, opens the store and answers empty
LookupsEmpty(d) ==
  LET st == [StOf(d) EXCEPT !.open = FALSE]
      opened(r) == ~r.st.crash /\ r.st.open
  IN /\ \A type \in Types, local_id \in LocalIds :
          LET r == GetObjectIdByLocalIdOnThread(st, type, local_id)
          IN opened(r) /\ r.ret = EmptyStr
     /\ \A type \in Types, object_id \in ObjectIds :
          /\ LET r == GetOrderByObjectIdOnThread(st, type, object_id)
             IN opened(r) /\ r.ret = EmptyStr
          /\ LET r == GetLocalIdByObjectIdOnThread(st, type, object_id)
             IN opened(r) /\ r.ret = EmptyStr
     /\ \A type \in NotSyncedTypes, action \in NotSyncedActions :
          LET r == SaveGetDeleteNotSyncedRecordsOnThread(st, type, action, {},
                                                         GetItems)
          IN opened(r) /\ r.ret = {}
     /\ \A local_id \in SpecialKeys :
          LET r == GetRawJsonByLocalId(st, local_id)
          IN opened(r) /\ r.ret = EmptyStr

-----------------------------------------------------------------------------
(* C16 *)

\* the record stored for (type, local_id), read for its object id and its
\* API version
SavedRecordIn(d, type, local_id) ==
  GetParsedDataByLocalId(StOf(d), type, local_id, TRUE, FALSE, TRUE)

\* C16: SaveObjectId(c, L, O), the API version being set, writes a forward
\* record that decodes to object_id O and apiVersion the current one; once
\* it has returned true GetObjectIdByLocalId(c, L) returns O and
\* GetLocalIdByObjectId(c, O) returns L.
C16_SaveObjectIdRecord ==
  (/\ last.op = "SaveObjectId"
   /\ last.ret
   /\ Completed(last, crashed)
   /\ ~dchecks
   /\ api_version # EmptyStr)
  => /\ LET p == SavedRecordIn(db, last.type, last.local_id)
        IN /\ ~p.st.crash
           /\ p.ret
           /\ p.object_id = last.object_id
           /\ p.api_version = api_version
     /\ Answers(ObjectIdIn(db, last.type, last.local_id), last.object_id)
     /\ Answers(LocalIdIn(db, last.type, last.object_id), last.local_id)

-----------------------------------------------------------------------------
(* C17 *)

\* C17: no mapping record is written with an empty apiVersion: SaveObjectId,
\* SaveObjectIdAndOrder, CreateOrderByLocalObjectId and
\* UpdateOrderByLocalObjectId, run while the API version is not set, return
\* false and write no forward and no reverse entry (here: in a run where no
\* checked build has stopped at a DCHECK).
C17_NoSaveWithoutApiVersion ==
  [][(/\ last'.op \in {"SaveObjectId", "SaveObjectIdAndOrder",
                       "CreateOrderByLocalObjectId",
                       "UpdateOrderByLocalObjectId"}
      /\ api_version = EmptyStr
      /\ ~crashed'
      /\ ~dchecks')
     => ~last'.ret /\ db' = db]_vars

-----------------------------------------------------------------------------
(* C14 *)

\* C14: when the engine refuses to open the store, the operation that asked
\* for it completes with its empty result (the empty string, the empty set,
\* false for a write), no key/value pair of the store changes and the handle
\* stays unset.
C14_UnavailableStoreFailsCleanly ==
  [][last'.failed
     => /\ ~crashed'
        /\ ~last'.ret
        /\ last'.out = EmptyStr
        /\ last'.outs = {}
        /\ db' = db
        /\ ~level_db']_vars

-----------------------------------------------------------------------------
(* C18 *)

\* C18: SetApiVersion is a one-time initialisation: a call with the empty
\* value and a call made when a version is already set both leave the stored
\* API version as it was, so a version once set never changes.
C18_ApiVersionSetOnce ==
  [][(/\ last'.op = "SetApiVersion"
      /\ ~crashed'
      /\ (last'.out = EmptyStr \/ api_version # EmptyStr))
     => api_version' = api_version]_vars

-----------------------------------------------------------------------------
(* C19 *)

\* C19: GetOrderByLocalObjectIds(c, ids) returns a list as long as ids whose
\* i-th element is what GetOrderByLocalObjectId(c, ids[i]) returns on the
\* same store, for every list, repeated and unknown ids included.
C19_BatchIsPointwise ==
  (last.op = "GetOrderByLocalObjectIds" /\ ~crashed)
  => /\ Len(last.orders) = Len(last.local_ids)
     /\ \A i \in 1..Len(last.local_ids) :
          Answers(OrderIn(db, last.type, last.local_ids[i]), last.orders[i])

\* a list of three was looked up: the same known id first and last, an
\* unknown id between them
C19_RepeatedAndUnknownSeen ==
  /\ last.op = "GetOrderByLocalObjectIds"
  /\ ~crashed
  /\ Len(last.local_ids) = 3
  /\ last.local_ids[1] = last.local_ids[3]
  /\ last.local_ids[2] # last.local_ids[1]
  /\ Len(last.orders) = 3
  /\ last.orders[1] # EmptyStr
  /\ last.orders[2] = EmptyStr

-----------------------------------------------------------------------------
(* C15 *)

\* the record a save call hands to SaveObjectIdRawJson
WrittenRecord(call, api) ==
  IF call.op = "SaveObjectId" THEN RecordJsonNoOrder(call.object_id, api)
  ELSE RecordJson(call.object_id, call.order, api)

\* C15: the dual write is not transactional.  When the forward Put succeeds
\* and the reverse Put fails, the save returns false, the forward entry it
\* wrote stays in the store and the reverse entry is as before; when the
\* forward Put fails, the save returns false and the store is unchanged (no
\* reverse Put is attempted).  With no failing Put it returns true.
C15_DualWriteNotRolledBack ==
  [][(/\ last'.op \in {"SaveObjectId", "SaveObjectIdAndOrder"}
      /\ Completed(last', crashed'))
     => LET raw_local_id == ComposeRawLocalId(last'.type, last'.local_id)
        IN /\ last'.put = 0 => last'.ret
           /\ last'.put = 1 => ~last'.ret /\ db' = db
           /\ last'.put = 2
              => /\ ~last'.ret
                 /\ db' = DbPut(db, raw_local_id, WrittenRecord(last', api_version))]_vars

\* a save whose reverse Put failed left its forward entry without a reverse
\* entry
C15_HalfWrittenSeen ==
  /\ last.op = "SaveObjectIdAndOrder"
  /\ Completed(last, crashed)
  /\ last.put = 2
  /\ ~last.ret
  /\ DbGet(db, ComposeRawLocalId(last.type, last.local_id))
       = RecordJson(last.object_id, last.order, api_version)
  /\ ~DbHas(db, last.object_id)

-----------------------------------------------------------------------------
(* C11 *)

\* the results of the handlers that have returned, in the order they ran
Results == delivered \o replies

\* the call behind the j-th result
CallOf(j) == posted[Results[j].id]

IsWrite(call) ==
  call.op \in {"SaveObjectIdAndOrder", "UpdateOrderByLocalObjectId"}

SameMapping(a, b) == a.type = b.type /\ a.local_id = b.local_id

\* the i-th result is that of the last write to the mapping of call that
\* returned true among the results before the j-th
LastWriteBefore(i, j, call) ==
  /\ i < j
  /\ IsWrite(CallOf(i))
  /\ SameMapping(CallOf(i), call)
  /\ Results[i].ret
  /\ \A k \in (i + 1)..(j - 1) :
       ~(IsWrite(CallOf(k)) /\ SameMapping(CallOf(k), call) /\ Results[k].ret)

\* no Close() among the first n calls
NoCloseUpTo(n) == \A k \in 1..n : posted[k].op # "Close"

\* C11: the calls of one caller run on the worker in the order they were
\* made, however calls and tasks interleave.  Of two writes to the same
\* (c, L) (SaveObjectIdAndOrder, then SaveObjectIdAndOrder or
\* UpdateOrderByLocalObjectId with another order) the second one decides:
\* once it has returned true the store holds its order, and a read made after
\* it returns its order.  As long as Close() has not been called a save
\* returns true and a read finds the store.
C11_SubmissionOrderDecides ==
  /\ \A i, j \in 1..Len(Results) : i < j => Results[i].id < Results[j].id
  /\ \A i \in 1..Len(Results) :
       /\ LastWriteBefore(i, Len(Results) + 1, CallOf(i))
          => Answers(OrderIn(db, CallOf(i).type, CallOf(i).local_id),
                     CallOf(i).order)
       /\ \A j \in 1..Len(Results) :
            (/\ CallOf(j).op = "GetOrderByLocalObjectId"
             /\ ~Results[j].failed
             /\ LastWriteBefore(i, j, CallOf(j)))
            => Results[j].out = CallOf(i).order
       /\ NoCloseUpTo(Len(posted))
          => /\ ~Results[i].failed
             /\ CallOf(i).op = "SaveObjectIdAndOrder" => Results[i].ret

\* a save, an update to another order and a read were made with no Close()
\* and no failed DCHECK; both writes returned true and the read returned
\* the order of the update
C11_SecondOrderSeen ==
  /\ ~crashed
  /\ ~dchecks
  /\ Len(delivered) = 3
  /\ NoCloseUpTo(Len(posted))
  /\ CallOf(1).op = "SaveObjectIdAndOrder"
  /\ CallOf(2).op = "UpdateOrderByLocalObjectId"
  /\ CallOf(3).op = "GetOrderByLocalObjectId"
  /\ CallOf(1).order # CallOf(2).order
  /\ Results[1].ret
  /\ Results[2].ret
  /\ Results[3].out = CallOf(2).order

-----------------------------------------------------------------------------
(* C12 *)

\* C12: level_db_ is read and written by the worker's task only: a step of
\* the calling context (a call made, Close() among them) leaves the handle
\* as it is, and a task past its open check has the handle set until it
\* ends.
C12_HandleOnlyOnWorker ==
  [][/\ Len(posted') > Len(posted) => level_db' = level_db
     /\ running' # 0 => level_db']_vars

-----------------------------------------------------------------------------
(* C13 *)

\* C13: Close() loses no work.  A read made after a Close() that the store
\* answers returns the order of the last SaveObjectIdAndOrder made before
\* the read for its (c, L), whether that save was made before or after the
\* Close() and whether or not its task had run when Close() was called:
\* W; Close(); R gives R the value of W.
C13_CloseLosesNoWork ==
  (~crashed /\ ~dchecks)
  => \A j \in 1..Len(Results), w \in 1..Len(posted) :
       (/\ CallOf(j).op = "GetOrderByLocalObjectId"
        /\ ~Results[j].failed
        /\ w < Results[j].id
        /\ posted[w].op = "SaveObjectIdAndOrder"
        /\ SameMapping(posted[w], CallOf(j))
        /\ \A k \in (w + 1)..(Results[j].id - 1) : ~IsWrite(posted[k])
        /\ \E k \in 1..(Results[j].id - 1) : posted[k].op = "Close")
       => Results[j].out = posted[w].order

-----------------------------------------------------------------------------
(* C20 *)

\* the callback of the i-th call has run
Answered(i) == \E k \in 1..Len(delivered) : delivered[k].id = i

\* C20: with the worker and the replies scheduled fairly, every request
\* made (a lookup or a save) is eventually executed and its callback run,
\* and no callback runs twice; here a request is let off when the browser
\* shuts down first.
C20_EveryRequestAnswered ==
  /\ \A i \in 1..MaxFairPosts :
       (Len(posted) >= i /\ posted[i].op # "Close") ~> (Answered(i) \/ shutdown)
  /\ [](\A k, l \in 1..Len(delivered) :
          delivered[k].id = delivered[l].id => k = l)

\* what holds instead: a request is answered unless the browser shuts down
\* or the process dies first
C20_AnsweredWhileProcessLives ==
  \A i \in 1..MaxFairPosts :
    (Len(posted) >= i /\ posted[i].op # "Close")
      ~> (Answered(i) \/ shutdown \/ crashed)

-----------------------------------------------------------------------------
(* C21 *)

\* C21: when UpdateOrderByLocalObjectId(c, L, new_order) returns true for an
\* existing mapping (c, L) -> O, GetOrderByLocalObjectId(c, L) returns
\* new_order afterwards, GetObjectIdByLocalId(c, L) still returns O,
\* GetLocalIdByObjectId(c, O) still returns L, and the mappings of all other
\* local-ids are unchanged.
C21_UpdateRewritesOrderOnly ==
  [][(/\ last'.op = "UpdateOrderByLocalObjectId"
      /\ last'.ret
      /\ Completed(last', crashed')
      /\ ~dchecks')
     => \A object_id \in ObjectIds :
          (/\ ForwardIs(db, last'.type, last'.local_id, object_id)
           /\ SavedPair(db, last'.type, last'.local_id, object_id))
          => /\ Answers(OrderIn(db', last'.type, last'.local_id), last'.order)
             /\ Answers(ObjectIdIn(db', last'.type, last'.local_id), object_id)
             /\ Answers(LocalIdIn(db', last'.type, object_id), last'.local_id)
             /\ \A type \in Types, local_id \in LocalIds :
                  <<type, local_id>> # <<last'.type, last'.local_id>>
                  => MappingUnchanged(db, db', type, local_id)]_vars

-----------------------------------------------------------------------------
(* C22 *)

\* C22: DeleteByLocalId(c, L) for a local-id that has no forward entry, the
\* store being available, returns true and leaves every key/value pair of
\* the store unchanged.
C22_DeleteOfMissingIsNoOp ==
  [][(/\ last'.op = "DeleteByLocalId"
      /\ Completed(last', crashed')
      /\ ~DbHas(db, ComposeRawLocalId(last'.type, last'.local_id)))
     => /\ last'.ret
        /\ db' = db
        /\ ~crashed']_vars

\* a delete of a local-id without forward entry ran on a store that holds
\* the mapping of another local-id
C22_DeleteOfMissingSeen ==
  /\ last.op = "DeleteByLocalId"
  /\ Completed(last, crashed)
  /\ last.ret
  /\ ~DbHas(db, ComposeRawLocalId(last.type, last.local_id))
  /\ \E type \in Types, local_id \in LocalIds, object_id \in ObjectIds :
       /\ ForwardIs(db, type, local_id, object_id)
       /\ SavedPair(db, type, local_id, object_id)

-----------------------------------------------------------------------------
(* C23 *)

\* the text stored under raw key raw, read as JSON
RecordUnder(d, raw) == JSONRead(DbGet(d, raw))

\* val is a well-formed array of one dictionary
IsRecord(val) ==
  val.ok /\ val.v.k = "list" /\ Len(val.v.items) = 1
  /\ val.v.items[1].k = "dict"

\* the record has no member named key
Lacks(val, key) == ~FindKey(val.v.items[1], key).found

\* the string the record has under key, the empty string when it has none
FieldOrEmpty(val, key) ==
  LET f == FieldString(val.v.items[1], key)
  IN IF f.ok THEN f.s ELSE EmptyStr

\* the raw key whose record the call reads: that of its (category, local-id),
\* or for GetOrderByObjectId the one its reverse entry leads to
KeyRead(d, call) ==
  IF call.op = "GetOrderByObjectId"
    THEN ComposeRawLocalId(call.type, LocalIdIn(d, call.type, call.object_id).ret)
    ELSE ComposeRawLocalId(call.type, call.local_id)

\* C23: decoding a stored record never fails or faults because an optional
\* field is missing: on a well-formed one-element-array record that carries
\* object_id and lacks order and/or apiVersion, GetOrderByLocalObjectId,
\* GetOrderByObjectId and UpdateOrderByLocalObjectId complete normally and
\* obtain the empty string for the missing field; a record without object_id
\* makes them return not-found/false.
C23_MissingFieldDecodesEmpty ==
  [][(/\ last'.op \in {"GetOrderByLocalObjectId", "GetOrderByObjectId",
                       "UpdateOrderByLocalObjectId"}
      /\ ~last'.failed
      /\ last'.op = "GetOrderByObjectId" => DbHas(db, last'.object_id)
      /\ IsRecord(RecordUnder(db, KeyRead(db, last'))))
     => LET val == RecordUnder(db, KeyRead(db, last'))
        IN /\ ~crashed'
           /\ Lacks(val, <<"object_id">>)
              => last'.out = EmptyStr /\ ~last'.ret
           /\ (~Lacks(val, <<"object_id">>) /\ last'.op # "UpdateOrderByLocalObjectId")
              => last'.out = FieldOrEmpty(val, <<"order">>)]_vars

-----------------------------------------------------------------------------
(* C24 *)

\* C24: GetLocalIdByObjectId(c, O) reports a category mismatch and does not
\* crash: when the reverse entry of O decodes to a category other than c the
\* operation completes normally, no assertion stopping it, and returns the
\* decoded local-id; when O has no reverse entry or the store is unavailable
\* it returns the empty string.
C24_MismatchIsReturned ==
  [][(/\ last'.op = "GetLocalIdByObjectId"
      /\ last'.object_id # EmptyStr)
     => /\ ~crashed'
        /\ (last'.failed \/ ~DbHas(db, last'.object_id))
           => last'.out = EmptyStr /\ ~last'.dcheck
        /\ (~last'.failed /\ DbHas(db, last'.object_id))
           => LET sp == SplitRawLocalId(DbGet(db, last'.object_id))
              IN /\ last'.out = sp.local_id
                 /\ sp.read_type # last'.type => ~last'.dcheck]_vars

-----------------------------------------------------------------------------
(* C25 *)

\* C25: ResetSync(key) removes exactly the entry stored under the raw key
\* and leaves every other key/value pair unchanged, the key being neither
\* decoded nor validated; the reverse entry of the object-id of a forward
\* record it removes stays in place.  When the store cannot be opened it
\* changes nothing.
C25_ResetRemovesOneKey ==
  [][last'.op = "ResetSync"
     => /\ ~crashed'
        /\ ~last'.dcheck
        /\ last'.failed => db' = db
        /\ ~last'.failed
           => /\ ~DbHas(db', last'.local_id)
              /\ DOMAIN db' = DOMAIN db \ {last'.local_id}
              /\ \A k \in DOMAIN db' : db'[k] = db[k]]_vars

\* ResetSync took out the forward record of a saved mapping: the reverse
\* entry of its object-id and the mapping of another local-id are in the store
C25_ResetOfForwardKeySeen ==
  /\ last.op = "ResetSync"
  /\ ~last.failed
  /\ \E type \in Types, local_id \in LocalIds, object_id \in ObjectIds :
       /\ last.local_id = ComposeRawLocalId(type, local_id)
       /\ DbHas(db, object_id)
       /\ DbGet(db, object_id) = last.local_id
       /\ \E other \in LocalIds \ {local_id} :
            ForwardIs(db, type, other, object_id)

-----------------------------------------------------------------------------
(* C26 *)

\* the j-th result is that of a DestroyDB
IsDestroy(j) == CallOf(j).op = "DestroyDB"

\* what holds of the results in every state: a DestroyDB has its result only
\* when every call made before it has run and has its result; a read made
\* before a DestroyDB returns what the last write before it has stored, no
\* other DestroyDB having run in between
DestroyInTurn ==
  /\ \A j \in 1..Len(Results) :
       IsDestroy(j)
       => /\ \A k \in 1..(Results[j].id - 1) :
               posted[k].op # "Close"
               => \E i \in 1..(j - 1) : Results[i].id = k
          /\ Results[j].id \notin {queue[q] : q \in 1..Len(queue)}
          /\ running # Results[j].id
  /\ \A i, j \in 1..Len(Results) :
       (/\ CallOf(j).op = "GetOrderByLocalObjectId"
        /\ ~Results[j].failed
        /\ LastWriteBefore(i, j, CallOf(j))
        /\ \A k \in (i + 1)..(j - 1) : ~IsDestroy(k))
       => Results[j].out = CallOf(i).order

\* a step in which DestroyDBOnThread runs; its reply is posted then
DestroyRuns ==
  /\ Len(Results') = Len(Results) + 1
  /\ posted[Results'[Len(Results')].id].op = "DestroyDB"

\* the engine had the directory deleted
Deleted == ~Results'[Len(Results')].failed /\ db' = EmptyDb /\ ~level_db'

\* C26: DestroyDB is ordered after all operations enqueued before it and
\* tolerates a store that was never opened: every operation enqueued before
\* DestroyDB has run to completion against the store as it was and has
\* returned its result before anything on disk is deleted, the callback of
\* DestroyDB is delivered only after the deletion has run, and DestroyDB on a
\* handle that was never opened completes with no assertion failing.
C26_DestroyAfterEarlierCalls ==
  [][/\ DestroyInTurn'
     /\ DestroyRuns
        => /\ delivered' = delivered
           /\ ~released => Deleted
           /\ (Results = <<>> /\ ~level_db /\ ~released)
              => ~crashed' /\ dchecks' = dchecks /\ Deleted]_vars

\* a save, a read and DestroyDB were called in this order, with no Close();
\* the read returned the saved order, the three callbacks have run and the
\* store is empty
C26_ReadThenDestroySeen ==
  /\ ~crashed
  /\ Len(delivered) = 3
  /\ NoCloseUpTo(Len(posted))
  /\ CallOf(1).op = "SaveObjectIdAndOrder"
  /\ CallOf(2).op = "GetOrderByLocalObjectId"
  /\ IsDestroy(3)
  /\ Results[1].ret
  /\ Results[2].out = CallOf(1).order
  /\ db = EmptyDb

-----------------------------------------------------------------------------
(* C27 *)

\* C27: GetOrderByObjectId(c, O) returns an order only through the reverse
\* entry of O: it returns the empty string when O has no reverse entry,
\* whatever the store holds, a record under the empty local-id of category c
\* included; when O maps to (c, L) it returns the order stored for (c, L).
C27_OrderOnlyThroughReverseEntry ==
  [][(/\ last'.op = "GetOrderByObjectId"
      /\ last'.object_id # EmptyStr
      /\ ~last'.failed)
     => /\ ~DbHas(db, last'.object_id)
           => ~crashed' /\ last'.out = EmptyStr
        /\ \A local_id \in LocalIds :
             (/\ SavedPair(db, last'.type, local_id, last'.object_id)
              /\ ForwardIs(db, last'.type, local_id, last'.object_id)
              /\ Answers(LocalIdIn(db, last'.type, last'.object_id), local_id))
             => /\ ~crashed'
                /\ last'.out = OrderIn(db, last'.type, local_id).ret]_vars

-----------------------------------------------------------------------------
(* C28 *)

\* C28: the assertion of GetOrderByObjectIdOnThread, that the object id
\* decoded from the record reached through the reverse entry is the
\* requested one, holds on every call: for an object-id never saved, one
\* deleted, one whose local-id was saved again with another object-id.
\* (Calls on which the category assertion of the reverse lookup fails are
\* left aside.)
C28_SavedObjectIdIsRequested ==
  [][(/\ last'.op = "GetOrderByObjectId"
      /\ last'.object_id # EmptyStr
      /\ ~last'.failed
      /\ ~crashed'
      /\ DbHas(db, last'.object_id)
         => SplitRawLocalId(DbGet(db, last'.object_id)).read_type = last'.type)
     => ~last'.dcheck]_vars

-----------------------------------------------------------------------------
(* C29 *)

\* C29: a successful save of (c, L, O) changes only the mapping of (c, L)
\* and the reverse entry of O; forward keys, reverse keys and the keys of the
\* not-synced sets never collide: the save overwrites neither its own
\* forward record, nor the forward record of another (c', L'), nor a
\* not-synced set, also when O is the raw key of some (c', L') or the key of
\* a not-synced set, and for Unset local-ids that start with 'b' or 'h'.
C29_SaveTouchesItsTwoKeys ==
  [][(/\ last'.op = "SaveObjectIdAndOrder"
      /\ last'.ret
      /\ Completed(last', crashed')
      /\ ~dchecks'
      /\ last'.object_id # EmptyStr)
     => /\ DbGet(db', ComposeRawLocalId(last'.type, last'.local_id))
             = RecordJson(last'.object_id, last'.order, api_version)
        /\ \A type \in Types, local_id \in LocalIds :
             <<type, local_id>> # <<last'.type, last'.local_id>>
             => SameEntry(db, db', ComposeRawLocalId(type, local_id))
        /\ \A type \in NotSyncedTypes, action \in NotSyncedActions :
             SameEntry(db, db', RecordType(type) \o action)]_vars

-----------------------------------------------------------------------------
(* C30 *)

\* every entry but the one under key is the same in d and e
OnlyKeyChanged(d, e, key) ==
  \A k \in (DOMAIN d \cup DOMAIN e) \ {key} : SameEntry(d, e, k)

\* C30: a write that carries no object-id touches its own key only:
\* SaveSpecialJson(k, json) and the write of the set by AddItems and
\* DeleteItems change the value under one key (k, and recordType + action)
\* and create or modify no other entry, none under the empty key in
\* particular; after a successful SaveSpecialJson(k, json),
\* GetSpecialJSONByLocalId(k) returns json as given.
C30_WritesWithoutObjectIdTouchOneKey ==
  [][/\ (/\ last'.op = "SaveSpecialJson"
         /\ last'.ret
         /\ Completed(last', crashed'))
        => /\ OnlyKeyChanged(db, db', last'.local_id)
           /\ GetRawJsonByLocalId(StOf(db'), last'.local_id).ret = last'.order
     /\ (/\ last'.op = "SaveGetDeleteNotSyncedRecords"
         /\ Completed(last', crashed')
         /\ \/ last'.operation = AddItems
            \/ last'.operation = DeleteItems /\ last'.action # DELETE_RECORD)
        => OnlyKeyChanged(db, db', RecordType(last'.type) \o last'.action)]_vars

=============================================================================
